---- MODULE Spec2Model ----
(***************************************************************************)
(* Client-side simulation session of the Traffic Simulation Platform:      *)
(* the context store (SimulationProvider / simulationReducer), the         *)
(* Simulation page (start / stop / reset and the sampler interval), the    *)
(* configuration form (SimulationConfigComponent) and the chart history    *)
(* of MetricsDashboard.                                                    *)
(*                                                                         *)
(* The browser is one event loop: every action below is one task (a click  *)
(* handler, a timer callback, a navigation) together with the microtasks   *)
(* it queues.  Durations are abstracted: a registered timer may fire       *)
(* whenever it is active.                                                  *)
(***************************************************************************)
EXTENDS Integers, Sequences, FiniteSets, TLC

VARIABLES
    state,              \* store: useReducer(simulationReducer, initialState)
    now,                \* wall clock read by Date.now()
    page,               \* current route: "dashboard", "upload", "simulation"
    isRunning,          \* Simulation: useState(false)
    currentMetrics,     \* Simulation: useState({50, 0, 0, 0})
    simulationInterval, \* window.simulationInterval (0 is the falsy, empty slot)
    timers,             \* active sampler intervals: records [id, mounted]
    pendingStops,       \* stopSimulation calls waiting in their 1000 ms timeout
    config,             \* SimulationConfigComponent: useState(default config)
    historicalData,     \* MetricsDashboard: useState([])
    appended,           \* history: every data point appended since the mount
    edits,              \* history: number of input changes made in the form
    lastOp,             \* history: the last of start / stop / reset invoked
    ticked,             \* history: a sample was emitted since the last start
    upload,             \* Upload page: its useState values
    templatesEffect     \* identity of loadTemplates, and the one its effect ran with

vars == <<state, now, page, isRunning, currentMetrics, simulationInterval,
          timers, pendingStops, config, historicalData, appended,
          edits, lastOp, ticked, upload, templatesEffect>>

-----------------------------------------------------------------------------
(* Bounds of the model *)

MaxNow == 1
MaxTimers == 2
MaxPending == 2
MaxHistLen == 1
MaxEdits == 1
MaxAppends == 22
MaxPropChanges == 1

(* Program constants *)

HistoryCap == 20

Null == [null |-> TRUE]

-----------------------------------------------------------------------------
(* Metrics *)

Metrics(speed, queue, wait, throughput) ==
    [average_speed_kmh |-> speed,
     total_queue_length |-> queue,
     average_wait_time_seconds |-> wait,
     throughput_vehicles_per_hour |-> throughput]

\* a page that starts with all-zero metrics
defaultMetricsZero == Metrics(0, 0, 0, 0)

\* the initial currentMetrics of the Simulation page
defaultMetrics == Metrics(50, 0, 0, 0)

\* the resetMetrics of handleStopSimulation
stopMetrics == Metrics(0, 0, 0, 0)

\* handleReset with the resetMetrics of handleStopSimulation
resetMetricsZero == Metrics(0, 0, 0, 0)

\* the resetMetrics of handleReset
resetMetrics == Metrics(50, 0, 0, 0)

\* Math.random() is drawn in tenths: r stands for r / 10 in [0, 1).
RandomTenths == {0, 9}

\* The four draws of one sampler callback.
RandomDraws == {<<r, r, r, r>> : r \in RandomTenths}

Times(r, range) == (r * range) \div 10

newMetrics(d) ==
    Metrics(40 + Times(d[1], 30), Times(d[2], 20), Times(d[3], 60),
            800 + Times(d[4], 1200))

-----------------------------------------------------------------------------
(* Configuration; peak_hour_factor is held in tenths *)

Config(vph, car, truck, peak, signal, green, yellow, red, duration) ==
    [vehicles_per_hour |-> vph,
     car_percentage |-> car,
     truck_percentage |-> truck,
     peak_hour_factor |-> peak,
     signal_control |-> signal,
     green_time |-> green,
     yellow_time |-> yellow,
     red_time |-> red,
     simulation_duration |-> duration]

defaultConfig == Config(1000, 80, 20, 10, "fixed_time", 30, 3, 30, 3600)

Template(name, vph, car, truck, peak, signal, green, yellow, red) ==
    [name |-> name,
     vehicles_per_hour |-> vph,
     car_percentage |-> car,
     truck_percentage |-> truck,
     peak_hour_factor |-> peak,
     signal_control |-> signal,
     green_time |-> green,
     yellow_time |-> yellow,
     red_time |-> red]

mockTemplates ==
    << Template("Urban Intersection", 1500, 85, 15, 12, "fixed_time", 30, 3, 30),
       Template("Highway Merge", 3000, 90, 10, 15, "actuated", 45, 3, 20),
       Template("Roundabout", 800, 80, 20, 10, "adaptive", 60, 3, 0) >>

\* validateConfig without the test of the vehicle split
validateConfigNoSplit(c) ==
    /\ c.vehicles_per_hour >= 100
    /\ c.vehicles_per_hour <= 5000
    /\ c.peak_hour_factor >= 10
    /\ c.peak_hour_factor <= 20
    /\ c.green_time > 0
    /\ c.yellow_time > 0
    /\ c.red_time >= 0

\* validateConfig with a red time that must be positive
validateConfigRedPositive(c) ==
    /\ c.vehicles_per_hour >= 100
    /\ c.vehicles_per_hour <= 5000
    /\ c.car_percentage + c.truck_percentage = 100
    /\ c.peak_hour_factor >= 10
    /\ c.peak_hour_factor <= 20
    /\ c.green_time > 0
    /\ c.yellow_time > 0
    /\ c.red_time > 0

validateConfig(c) ==
    /\ c.vehicles_per_hour >= 100
    /\ c.vehicles_per_hour <= 5000
    /\ c.car_percentage + c.truck_percentage = 100
    /\ c.peak_hour_factor >= 10
    /\ c.peak_hour_factor <= 20
    /\ c.green_time > 0
    /\ c.yellow_time > 0
    /\ c.red_time >= 0

mockRoadNetwork ==
    [id |-> "network_001", segments |-> 2, intersections |-> 1, lanes |-> 4]

-----------------------------------------------------------------------------
(* The store *)

initialState ==
    [currentSimulation |-> Null,
     roadNetwork |-> Null,
     simulationConfig |-> Null,
     templates |-> <<>>,
     isLoading |-> FALSE,
     error |-> Null]

\* a value of `error: string | null` that is a string
ErrorMessage(msg) == [message |-> msg]

Action(type, payload) == [type |-> type, payload |-> payload]

simulationReducer(s, a) ==
    CASE a.type = "SET_LOADING" -> [s EXCEPT !.isLoading = a.payload]
      [] a.type = "SET_ERROR" -> [s EXCEPT !.error = a.payload]
      [] a.type = "SET_ROAD_NETWORK" -> [s EXCEPT !.roadNetwork = a.payload]
      [] a.type = "SET_SIMULATION_CONFIG" ->
            [s EXCEPT !.simulationConfig = a.payload]
      [] a.type = "START_SIMULATION" ->
            [s EXCEPT !.currentSimulation =
                          [simulation_id |-> a.payload,
                           status |-> "running",
                           message |-> "Simulation started successfully",
                           metrics |-> Null],
                      !.error = Null]
      [] a.type = "UPDATE_METRICS" ->
            IF s.currentSimulation # Null
            THEN [s EXCEPT !.currentSimulation.metrics = a.payload]
            ELSE s
      [] a.type = "STOP_SIMULATION" ->
            IF s.currentSimulation # Null
            THEN [s EXCEPT !.currentSimulation.status = "completed",
                           !.currentSimulation.message = "Simulation completed"]
            ELSE s
      [] a.type = "SET_TEMPLATES" -> [s EXCEPT !.templates = a.payload]
      [] a.type = "CLEAR_SIMULATION" ->
            [s EXCEPT !.currentSimulation = Null,
                      !.roadNetwork = Null,
                      !.simulationConfig = Null]
      [] OTHER -> s

\* a dispatch whose CLEAR_SIMULATION keeps the road network
RECURSIVE DispatchKeepNetwork(_, _)
DispatchKeepNetwork(s, actions) ==
    IF actions = <<>> THEN s
    ELSE LET r == simulationReducer(s, Head(actions))
         IN DispatchKeepNetwork(
                IF Head(actions).type = "CLEAR_SIMULATION"
                THEN [r EXCEPT !.roadNetwork = s.roadNetwork] ELSE r,
                Tail(actions))

\* dispatch of a batch of actions, in order
RECURSIVE Dispatch(_, _)
Dispatch(s, actions) ==
    IF actions = <<>> THEN s
    ELSE Dispatch(simulationReducer(s, Head(actions)), Tail(actions))

\* `sim_${Date.now()}`
SimulationId(t) == <<"sim_", t>>

\* startSimulation whose new record inherits the metrics of the previous one
startSimulationKeepMetrics(s, cfg, t) ==
    LET started == Dispatch(s, << Action("SET_LOADING", TRUE),
                                  Action("SET_ERROR", Null),
                                  Action("START_SIMULATION", SimulationId(t)),
                                  Action("SET_SIMULATION_CONFIG", cfg),
                                  Action("SET_LOADING", FALSE) >>)
    IN IF s.currentSimulation # Null
       THEN [started EXCEPT !.currentSimulation.metrics =
                                s.currentSimulation.metrics]
       ELSE started

\* startSimulation has no await inside: its dispatches run in one task
startSimulation(s, cfg, t) ==
    Dispatch(s, << Action("SET_LOADING", TRUE),
                   Action("SET_ERROR", Null),
                   Action("START_SIMULATION", SimulationId(t)),
                   Action("SET_SIMULATION_CONFIG", cfg),
                   Action("SET_LOADING", FALSE) >>)

\* stopSimulation that marks the session paused while it waits
stopSimulationBeginPaused(s) ==
    IF s.currentSimulation # Null
    THEN [s EXCEPT !.isLoading = TRUE, !.currentSimulation.status = "paused"]
    ELSE [s EXCEPT !.isLoading = TRUE]

\* stopSimulation up to its await
stopSimulationBegin(s) == Dispatch(s, << Action("SET_LOADING", TRUE) >>)

\* stopSimulation that never dispatches STOP_SIMULATION
stopSimulationEndNoStop(s) == Dispatch(s, << Action("SET_LOADING", FALSE) >>)

\* stopSimulation that reports an error for a session already completed
stopSimulationEndStrict(s) ==
    IF s.currentSimulation # Null /\ s.currentSimulation.status = "completed"
    THEN [s EXCEPT !.currentSimulation.status = "error",
                   !.error = ErrorMessage("Failed to stop simulation"),
                   !.isLoading = FALSE]
    ELSE Dispatch(s, << Action("STOP_SIMULATION", Null),
                        Action("SET_LOADING", FALSE) >>)

\* stopSimulation that reports an error when there is no session to stop
stopSimulationEndNoSession(s) ==
    IF s.currentSimulation = Null
    THEN [s EXCEPT !.error = ErrorMessage("Failed to stop simulation"), !.isLoading = FALSE]
    ELSE Dispatch(s, << Action("STOP_SIMULATION", Null),
                        Action("SET_LOADING", FALSE) >>)

\* stopSimulation after the timeout resolves
stopSimulationEnd(s) ==
    Dispatch(s, << Action("STOP_SIMULATION", Null), Action("SET_LOADING", FALSE) >>)

\* updateMetrics that keeps the metrics a session already has
updateMetricsKeep(s, m) ==
    IF s.currentSimulation # Null /\ s.currentSimulation.metrics # Null
    THEN s
    ELSE Dispatch(s, << Action("UPDATE_METRICS", m) >>)

\* an updateMetrics that also clears the store's error
updateMetricsClearError(s, m) ==
    Dispatch(s, << Action("UPDATE_METRICS", m), Action("SET_ERROR", Null) >>)

updateMetrics(s, m) == Dispatch(s, << Action("UPDATE_METRICS", m) >>)

setRoadNetwork(s, n) == Dispatch(s, << Action("SET_ROAD_NETWORK", n) >>)

setSimulationConfig(s, c) == Dispatch(s, << Action("SET_SIMULATION_CONFIG", c) >>)

loadTemplates(s) == Dispatch(s, << Action("SET_TEMPLATES", mockTemplates) >>)

-----------------------------------------------------------------------------
(* MetricsDashboard: the chart history *)

\* new Date().toLocaleTimeString(): the second of the local day
toLocaleTimeString(t) == (t \div 1000) % 86400

newDataPoint(t, m) ==
    [time |-> toLocaleTimeString(t),
     average_speed |-> m.average_speed_kmh,
     queue_length |-> m.total_queue_length,
     throughput |-> m.throughput_vehicles_per_hour,
     wait_time |-> m.average_wait_time_seconds]

\* arr.slice(-n)
SliceLast(arr, n) ==
    IF Len(arr) <= n THEN arr ELSE SubSeq(arr, Len(arr) - n + 1, Len(arr))

\* setHistoricalData with slice(0, 20): the first entries are kept
setHistoricalDataKeepFirst(prev, point) ==
    IF Len(prev) < HistoryCap THEN Append(prev, point) ELSE prev

\* setHistoricalData((prev) => [...prev, newDataPoint].slice(-20))
setHistoricalData(prev, point) == SliceLast(Append(prev, point), HistoryCap)

-----------------------------------------------------------------------------
(* SimulationConfigComponent: the form *)

Fields == {"vehicles_per_hour", "car_percentage", "truck_percentage",
           "peak_hour_factor", "signal_control", "green_time", "yellow_time",
           "red_time", "simulation_duration"}

\* handleInputChange: setConfig((prev) => ({...prev, [field]: value}))
handleInputChange(c, field, value) == [c EXCEPT ![field] = value]

\* sliders that write only their own field
onChangeUncoupled(c, field, value) == handleInputChange(c, field, value)

\* the onChange handler of each input of the form
onChange(c, field, value) ==
    CASE field = "car_percentage" ->
            handleInputChange(handleInputChange(c, "car_percentage", value),
                              "truck_percentage", 100 - value)
      [] field = "truck_percentage" ->
            handleInputChange(handleInputChange(c, "truck_percentage", value),
                              "car_percentage", 100 - value)
      [] OTHER -> handleInputChange(c, field, value)

\* values a user can give each input: the ends of its min..max range
InputValues(field) ==
    CASE field = "vehicles_per_hour" -> {100, 5000}
      [] field = "car_percentage" -> {0, 100}
      [] field = "truck_percentage" -> {0, 100}
      [] field = "peak_hour_factor" -> {10, 20}
      [] field = "signal_control" -> {"fixed_time", "actuated", "adaptive"}
      [] field = "green_time" -> {10, 120}
      [] field = "yellow_time" -> {1, 10}
      [] field = "red_time" -> {0, 120}
      [] field = "simulation_duration" -> {300, 7200}

\* values handleInputChange accepts that no input of the form produces
RawValues(field) ==
    CASE field = "vehicles_per_hour" -> {50, 5100}
      [] field = "car_percentage" -> {50}
      [] field = "truck_percentage" -> {50}
      [] field = "peak_hour_factor" -> {9, 21}
      [] field = "green_time" -> {0}
      [] field = "yellow_time" -> {0}
      [] field = "red_time" -> {-5}
      [] OTHER -> {}

TemplateNames == {mockTemplates[i].name : i \in 1..Len(mockTemplates)}

\* state.templates.find((t) => t.name === templateKey)
FindTemplate(templates, key) ==
    LET idx == {i \in 1..Len(templates) : templates[i].name = key}
    IN IF idx = {} THEN Null
       ELSE templates[CHOOSE i \in idx : \A j \in idx : i <= j]

\* the newConfig of handleTemplateChange
templateConfig(t) ==
    Config(t.vehicles_per_hour, t.car_percentage, t.truck_percentage,
           t.peak_hour_factor, t.signal_control, t.green_time, t.yellow_time,
           t.red_time, 3600)

-----------------------------------------------------------------------------
(* The Upload page *)

\* a File: its MIME type as <<type, subtype>>, and its size in bytes
File(type, size) == [type |-> type, size |-> size]

\* file.type.startsWith("image/")
IsImageType(type) == type[1] = "image"

\* 10 * 1024 * 1024
MaxFileSize == 10 * 1024 * 1024

\* files a user can pick or drop: images of an allowed size (one of exactly
\* 10 MB), a file that is no image, a file without a type, and an image one
\* byte too large
Files ==
    {File(<<"image", "png">>, 2048),
     File(<<"image", "jpeg">>, MaxFileSize),
     File(<<"application", "pdf">>, 2048),
     File(<<"", "">>, 2048),
     File(<<"image", "png">>, MaxFileSize + 1)}

\* the useState values of UploadPage; pending tells whether a handleUpload is
\* in its delay ("mounted": of the instance shown, "unmounted": of one that
\* was left, "none"); sent is the file selected when handleUpload was last
\* invoked (history)
initialUpload ==
    [selectedFile |-> Null,
     error |-> Null,
     uploading |-> FALSE,
     uploadSuccess |-> FALSE,
     pending |-> "none",
     sent |-> Null]

\* handleFileSelect that tests the size only
handleFileSelectSizeOnly(u, file) ==
    IF file.size > MaxFileSize
    THEN [u EXCEPT !.error = ErrorMessage("File size must be less than 10MB")]
    ELSE [u EXCEPT !.error = Null, !.selectedFile = file]

handleFileSelect(u, file) ==
    IF ~IsImageType(file.type)
    THEN [u EXCEPT !.error =
              ErrorMessage("Please select an image file (JPG, PNG, BMP)")]
    ELSE IF file.size > MaxFileSize
    THEN [u EXCEPT !.error = ErrorMessage("File size must be less than 10MB")]
    ELSE [u EXCEPT !.error = Null, !.selectedFile = file]

removeFile(u) == [u EXCEPT !.selectedFile = Null, !.error = Null]

\* handleUpload up to its await
handleUploadBegin(u) ==
    IF u.selectedFile = Null THEN u
    ELSE [u EXCEPT !.uploading = TRUE, !.error = Null,
                   !.pending = "mounted", !.sent = u.selectedFile]

\* handleUpload after the 2000 ms timeout, apart from setRoadNetwork: the
\* setters of an instance that was left do nothing
handleUploadEnd(u) ==
    IF u.pending = "mounted"
    THEN [u EXCEPT !.uploadSuccess = TRUE, !.uploading = FALSE,
                   !.pending = "none"]
    ELSE [u EXCEPT !.pending = "none"]

\* the Upload page unmounts: its useState values are discarded, a
\* handleUpload in its delay goes on
uploadUnmounted(u) ==
    [initialUpload EXCEPT
        !.pending = IF u.pending = "none" THEN "none" ELSE "unmounted",
        !.sent = u.sent]

-----------------------------------------------------------------------------
(* Initial state: the application just loaded on the route "/" *)

\* the provider's first render made the first loadTemplates function (fn 1);
\* the effect of the page that calls it has not run since that page mounted
\* (ran 0)
initialEffect == [fn |-> 1, ran |-> 0]

Init ==
    /\ state = initialState
    /\ now = 0
    /\ page = "dashboard"
    /\ isRunning = FALSE
    /\ currentMetrics = defaultMetrics
    /\ simulationInterval = 0
    /\ timers = {}
    /\ pendingStops = <<>>
    /\ config = defaultConfig
    /\ historicalData = <<>>
    /\ appended = <<>>
    /\ edits = 0
    /\ lastOp = "none"
    /\ ticked = FALSE
    /\ upload = initialUpload
    /\ templatesEffect = initialEffect

\* the Simulation page shows its panels (not the "no road network" branch)
SimulationShown == page = "simulation" /\ state.roadNetwork # Null

\* the handle setInterval returns: an integer above zero that identifies no
\* active timer
setInterval(ts) ==
    CHOOSE id \in 1..(Cardinality(ts) + 1) :
        /\ \A t \in ts : t.id # id
        /\ \A j \in 1..(id - 1) : \E t \in ts : t.id = j

\* clearInterval(window.simulationInterval) under its truthiness test
clearSimulationInterval(ts, handle) ==
    IF handle # 0 THEN {t \in ts : t.id # handle} ELSE ts

-----------------------------------------------------------------------------
(* Time and navigation *)

ClockTick ==
    /\ now < MaxNow
    /\ now' = now + 1
    /\ UNCHANGED <<templatesEffect, upload, state, page, isRunning, currentMetrics,
                   simulationInterval, timers, pendingStops, config,
                   historicalData, appended, edits, lastOp, ticked>>

\* the Simulation page is not mounted: its component state does not exist,
\* and the callbacks registered by an instance that was mounted keep setters
\* of that instance, which do nothing any more
Unmounted ==
    /\ isRunning' = FALSE
    /\ currentMetrics' = defaultMetrics
    /\ config' = defaultConfig
    /\ historicalData' = <<>>
    /\ appended' = <<>>
    /\ timers' = {[t EXCEPT !.mounted = FALSE] : t \in timers}
    /\ pendingStops' = [i \in 1..Len(pendingStops) |-> FALSE]

\* a Link or navigate() to "/" or "/upload"
Navigate(to) ==
    /\ to \in {"dashboard", "upload"}
    /\ page # to
    /\ page' = to
    /\ Unmounted
    /\ UNCHANGED <<templatesEffect, upload, state, now, simulationInterval, edits, lastOp, ticked>>

\* a Link of the Dashboard to "/simulation": the page mounts; without a road
\* network its effect navigates on to "/upload"; with one, the form's effect
\* copies the stored configuration
NavigateSimulation ==
    /\ page = "dashboard"
    /\ IF state.roadNetwork = Null
       THEN /\ page' = "upload"
            /\ Unmounted
       ELSE /\ page' = "simulation"
            /\ isRunning' = FALSE
            /\ currentMetrics' = defaultMetrics
            /\ config' = IF state.simulationConfig # Null
                         THEN state.simulationConfig ELSE defaultConfig
            /\ historicalData' = <<>>
            /\ appended' = <<>>
            /\ UNCHANGED <<timers, pendingStops>>
    /\ UNCHANGED <<templatesEffect, upload, state, now, simulationInterval, edits, lastOp, ticked>>

\* the effect of Dashboard and of the form that calls loadTemplates()
LoadTemplates ==
    /\ page = "dashboard" \/ SimulationShown
    /\ state' = loadTemplates(state)
    /\ UNCHANGED <<templatesEffect, upload, now, page, isRunning, currentMetrics,
                   simulationInterval, timers, pendingStops, config,
                   historicalData, appended, edits, lastOp, ticked>>

\* handleUpload of the Upload page: the extracted network is stored and the
\* page redirects to "/"
HandleUpload ==
    /\ page = "upload"
    /\ state' = setRoadNetwork(state, mockRoadNetwork)
    /\ page' = "dashboard"
    /\ UNCHANGED <<templatesEffect, upload, now, isRunning, currentMetrics, simulationInterval,
                   timers, pendingStops, config, historicalData,
                   appended, edits, lastOp, ticked>>

-----------------------------------------------------------------------------
(* The form *)

\* a Start button that is never disabled
StartEnabledAlways ==
    /\ SimulationShown
    /\ ~isRunning

\* the Start button is rendered when not running, and disabled unless the
\* configuration validates and a road network is loaded
StartEnabled ==
    /\ SimulationShown
    /\ ~isRunning
    /\ validateConfig(config)

HandleTemplateChange(key) ==
    /\ SimulationShown
    /\ FindTemplate(state.templates, key) # Null
    /\ config' = templateConfig(FindTemplate(state.templates, key))
    /\ UNCHANGED <<templatesEffect, upload, state, now, page, isRunning, currentMetrics,
                   simulationInterval, timers, pendingStops,
                   historicalData, appended, edits, lastOp, ticked>>

\* an input change that is also saved to the store
InputChangeStored(field, value) ==
    /\ SimulationShown
    /\ edits < MaxEdits
    /\ config' = onChange(config, field, value)
    /\ state' = setSimulationConfig(state, config')
    /\ edits' = edits + 1
    /\ UNCHANGED <<templatesEffect, upload, now, page, isRunning, currentMetrics,
                   simulationInterval, timers, pendingStops,
                   historicalData, appended, lastOp, ticked>>

\* an input of the form changes
InputChange(field, value) ==
    /\ SimulationShown
    /\ edits < MaxEdits
    /\ config' = onChange(config, field, value)
    /\ edits' = edits + 1
    /\ UNCHANGED <<templatesEffect, upload, state, now, page, isRunning, currentMetrics,
                   simulationInterval, timers, pendingStops,
                   historicalData, appended, lastOp, ticked>>

-----------------------------------------------------------------------------
(* The Simulation page *)

\* what handleStartSimulation of the form and of the page do, once invoked,
\* up to the end of the continuation after `await startSimulation(config)`
StartSimulationSteps ==
    /\ Cardinality(timers) < MaxTimers
    /\ isRunning' = TRUE
    /\ state' = startSimulation(setSimulationConfig(state, config), config, now)
    /\ timers' = timers \cup {[id |-> setInterval(timers), mounted |-> TRUE]}
    /\ simulationInterval' = setInterval(timers)
    /\ lastOp' = "start"
    /\ ticked' = FALSE
    /\ UNCHANGED <<templatesEffect, upload, now, page, currentMetrics, pendingStops, config,
                   historicalData, appended, edits>>

\* a click on the Start button
HandleStartSimulation ==
    /\ StartEnabled
    /\ StartSimulationSteps

\* the setInterval callback of a sampler
SamplerTick(t, d) ==
    /\ t \in timers
    /\ currentMetrics' = IF t.mounted
                         THEN newMetrics(d) ELSE currentMetrics
    /\ state' = updateMetrics(state, newMetrics(d))
    /\ ticked' = TRUE
    /\ UNCHANGED <<templatesEffect, upload, now, page, isRunning, simulationInterval, timers,
                   pendingStops, config, historicalData, appended,
                   edits, lastOp>>

\* a click on the Stop button: handleStopSimulation up to
\* `await stopSimulation()`
HandleStopSimulation ==
    /\ SimulationShown
    /\ isRunning
    /\ Len(pendingStops) < MaxPending
    /\ timers' = clearSimulationInterval(timers, simulationInterval)
    /\ simulationInterval' = 0
    /\ state' = stopSimulationBegin(state)
    /\ pendingStops' = Append(pendingStops, TRUE)
    /\ lastOp' = "stop"
    /\ UNCHANGED <<templatesEffect, upload, now, page, isRunning, currentMetrics,
                   config, historicalData, appended, edits, ticked>>

\* the timeout of stopSimulation resolves: the rest of stopSimulation and of
\* handleStopSimulation
StopSimulationDone ==
    /\ pendingStops # <<>>
    /\ pendingStops' = Tail(pendingStops)
    /\ state' = updateMetrics(stopSimulationEnd(state), stopMetrics)
    /\ IF Head(pendingStops)
       THEN isRunning' = FALSE /\ currentMetrics' = stopMetrics
       ELSE UNCHANGED <<isRunning, currentMetrics>>
    /\ UNCHANGED <<templatesEffect, upload, now, page, simulationInterval, timers,
                   config, historicalData, appended, edits, lastOp, ticked>>

\* a Reset that also discards the road network, and keeps the session
HandleResetDropNetwork ==
    /\ SimulationShown
    /\ timers' = clearSimulationInterval(timers, simulationInterval)
    /\ simulationInterval' = 0
    /\ isRunning' = FALSE
    /\ currentMetrics' = resetMetrics
    /\ state' = setRoadNetwork(updateMetrics(state, resetMetrics), Null)
    /\ lastOp' = "reset"
    /\ UNCHANGED <<templatesEffect, upload, now, page, pendingStops, config,
                   historicalData, appended, edits, ticked>>

\* a click on the Reset button
HandleReset ==
    /\ SimulationShown
    /\ timers' = clearSimulationInterval(timers, simulationInterval)
    /\ simulationInterval' = 0
    /\ isRunning' = FALSE
    /\ currentMetrics' = resetMetrics
    /\ state' = updateMetrics(state, resetMetrics)
    /\ lastOp' = "reset"
    /\ UNCHANGED <<templatesEffect, upload, now, page, pendingStops, config,
                   historicalData, appended, edits, ticked>>

\* the setInterval callback of MetricsDashboard, registered while isRealTime
HistoryTick(maxLen) ==
    /\ SimulationShown
    /\ isRunning
    /\ Len(appended) < maxLen
    /\ historicalData' =
           setHistoricalData(historicalData, newDataPoint(now, currentMetrics))
    /\ appended' = Append(appended, newDataPoint(now, currentMetrics))
    /\ UNCHANGED <<templatesEffect, upload, state, now, page, isRunning, currentMetrics,
                   simulationInterval, timers, pendingStops, config,
                   edits, lastOp, ticked>>

-----------------------------------------------------------------------------
(* The application: navigation, upload, the session and its timers.  The    *)
(* form keeps its configuration here; SpecForm follows the form.            *)

Next ==
    \/ ClockTick
    \/ \E to \in {"dashboard", "upload"} : Navigate(to)
    \/ NavigateSimulation
    \/ LoadTemplates
    \/ HandleUpload
    \/ HandleStartSimulation
    \/ \E t \in timers : \E d \in RandomDraws : SamplerTick(t, d)
    \/ HandleStopSimulation
    \/ StopSimulationDone
    \/ HandleReset
    \/ HistoryTick(MaxHistLen)

Spec == Init /\ [][Next]_vars

\* The timeout of a pending stopSimulation resolves, and an active interval
\* fires, after a time that is finite: the event loop runs them.
Fairness ==
    /\ WF_vars(StopSimulationDone)
    /\ WF_vars(\E t \in timers : \E d \in RandomDraws : SamplerTick(t, d))

FairSpec == Spec /\ Fairness

-----------------------------------------------------------------------------
(* The Simulation page with a road network loaded: the form and the session *)

InitForm ==
    /\ state = setRoadNetwork(initialState, mockRoadNetwork)
    /\ now = 0
    /\ page = "simulation"
    /\ isRunning = FALSE
    /\ currentMetrics = defaultMetrics
    /\ simulationInterval = 0
    /\ timers = {}
    /\ pendingStops = <<>>
    /\ config = defaultConfig
    /\ historicalData = <<>>
    /\ appended = <<>>
    /\ edits = 0
    /\ lastOp = "none"
    /\ ticked = FALSE
    /\ upload = initialUpload
    /\ templatesEffect = initialEffect

NextSession ==
    \/ LoadTemplates
    \/ \E key \in TemplateNames : HandleTemplateChange(key)
    \/ HandleStartSimulation
    \/ HandleStopSimulation
    \/ StopSimulationDone
    \/ HandleReset

NextForm ==
    \/ NextSession
    \/ \E field \in Fields : \E value \in InputValues(field) :
          InputChange(field, value)

SpecForm == InitForm /\ [][NextForm]_vars

-----------------------------------------------------------------------------
(* The operations of the context called with any configuration, as any      *)
(* consumer of useSimulation() may call them                                *)

\* configurations that differ from the default in one field, by a value
\* inside or outside the range of its input
ConfigSamples ==
    {defaultConfig} \cup
    UNION {{handleInputChange(defaultConfig, f, v) :
               v \in RawValues(f) \cup InputValues(f)} : f \in Fields}

\* setSimulationConfig(c), and the effect of the form that copies
\* state.simulationConfig once it changed
ApiSetSimulationConfig(c) ==
    /\ SimulationShown
    /\ state.simulationConfig # c
    /\ state' = setSimulationConfig(state, c)
    /\ config' = c
    /\ UNCHANGED <<templatesEffect, upload, now, page, isRunning, currentMetrics, simulationInterval,
                   timers, pendingStops, historicalData, appended, edits,
                   lastOp, ticked>>

\* startSimulation(c) called on the context, and the same effect of the form
ApiStartSimulation(c) ==
    /\ SimulationShown
    /\ state' = startSimulation(state, c, now)
    /\ config' = IF state.simulationConfig # c THEN c ELSE config
    /\ UNCHANGED <<templatesEffect, upload, now, page, isRunning, currentMetrics, simulationInterval,
                   timers, pendingStops, historicalData, appended, edits,
                   lastOp, ticked>>

NextApi ==
    \/ NextSession
    \/ \E c \in ConfigSamples : ApiSetSimulationConfig(c)
    \/ \E c \in ConfigSamples : ApiStartSimulation(c)

SpecApi == InitForm /\ [][NextApi]_vars

-----------------------------------------------------------------------------
(* The chart history of a running session *)

InitHistory ==
    /\ state = startSimulation(
                   setSimulationConfig(
                       setRoadNetwork(initialState, mockRoadNetwork),
                       defaultConfig),
                   defaultConfig, 0)
    /\ now = 0
    /\ page = "simulation"
    /\ isRunning = TRUE
    /\ currentMetrics = defaultMetrics
    /\ simulationInterval = 1
    /\ timers = {[id |-> 1, mounted |-> TRUE]}
    /\ pendingStops = <<>>
    /\ config = defaultConfig
    /\ historicalData = <<>>
    /\ appended = <<>>
    /\ edits = 0
    /\ lastOp = "start"
    /\ ticked = FALSE
    /\ upload = initialUpload
    /\ templatesEffect = initialEffect

\* how many times the metrics shown changed between two data points
PropChanges ==
    LET all == Append(appended, newDataPoint(now, currentMetrics))
    IN Cardinality({i \in 1..(Len(all) - 1) : all[i] # all[i + 1]})

NextHistory ==
    \/ /\ PropChanges < MaxPropChanges
       /\ \E t \in timers : \E d \in RandomDraws : SamplerTick(t, d)
    \/ HistoryTick(MaxAppends)

SpecHistory == InitHistory /\ [][NextHistory]_vars

-----------------------------------------------------------------------------
(* The chart history of a session that is running when the local day ends *)

\* the last millisecond of a local day, 23:59:59.999
LastMsOfDay == 86400 * 1000 - 1

InitMidnight ==
    /\ state = startSimulation(
                   setSimulationConfig(
                       setRoadNetwork(initialState, mockRoadNetwork),
                       defaultConfig),
                   defaultConfig, LastMsOfDay)
    /\ now = LastMsOfDay
    /\ page = "simulation"
    /\ isRunning = TRUE
    /\ currentMetrics = defaultMetrics
    /\ simulationInterval = 1
    /\ timers = {[id |-> 1, mounted |-> TRUE]}
    /\ pendingStops = <<>>
    /\ config = defaultConfig
    /\ historicalData = <<>>
    /\ appended = <<>>
    /\ edits = 0
    /\ lastOp = "start"
    /\ ticked = FALSE
    /\ upload = initialUpload
    /\ templatesEffect = initialEffect

\* the wall clock goes on, past the end of the day
MidnightClockTick ==
    /\ now < LastMsOfDay + MaxNow
    /\ now' = now + 1
    /\ UNCHANGED <<templatesEffect, upload, state, page, isRunning, currentMetrics,
                   simulationInterval, timers, pendingStops, config,
                   historicalData, appended, edits, lastOp, ticked>>

NextMidnight ==
    \/ MidnightClockTick
    \/ HistoryTick(MaxAppends)

SpecMidnight == InitMidnight /\ [][NextMidnight]_vars

-----------------------------------------------------------------------------
(* The sampler in IEEE 754 double arithmetic.  A number is held as          *)
(* whole - below * 2^-53 with whole a natural number and below a small      *)
(* natural number: the doubles just below a whole number, which is where    *)
(* Math.random() close to 1 takes the four expressions of the callback.     *)

\* how many of the largest values of Math.random() are drawn
MaxBelow == 2

Double(whole, below) == [whole |-> whole, below |-> below]

\* the smallest power of two that is at least n, from p upwards: the spacing
\* of the doubles just below n, in units of 2^-53
RECURSIVE Pow2AtLeast(_, _)
Pow2AtLeast(n, p) == IF p >= n THEN p ELSE Pow2AtLeast(n, 2 * p)

\* b / m rounded to the nearest integer, ties to the even one
RoundHalfEven(b, m) ==
    LET q == b \div m
        r == b % m
    IN IF 2 * r < m THEN q
       ELSE IF 2 * r > m THEN q + 1
       ELSE IF q % 2 = 0 THEN q ELSE q + 1

\* the double nearest to x (round to nearest, ties to even)
RoundToDouble(x) ==
    IF x.below = 0 THEN x
    ELSE LET m == Pow2AtLeast(x.whole, 1)
         IN Double(x.whole, RoundHalfEven(x.below, m) * m)

\* r * n and n + x as JavaScript computes them
TimesDouble(r, n) == RoundToDouble(Double(r.whole * n, r.below * n))
PlusDouble(n, x) == RoundToDouble(Double(n + x.whole, x.below))

\* values of Math.random(): 0, and the doubles 1 - j * 2^-53 below 1
RandomDoubles == {Double(0, 0)} \cup {Double(1, j) : j \in 1..MaxBelow}

\* the four draws of one sampler callback: one for the speed, and one value
\* taken for the other three
RandomDoubleDraws ==
    {<<a, b, b, b>> : a \in RandomDoubles, b \in RandomDoubles}

\* a sampler whose speed expression is 40 + Math.random() * 31
newMetricsDoubleWide(d) ==
    Metrics(PlusDouble(40, TimesDouble(d[1], 31)), TimesDouble(d[2], 20),
            TimesDouble(d[3], 60), PlusDouble(800, TimesDouble(d[4], 1200)))

\* the newMetrics of the sampler callback
newMetricsDouble(d) ==
    Metrics(PlusDouble(40, TimesDouble(d[1], 30)), TimesDouble(d[2], 20),
            TimesDouble(d[3], 60), PlusDouble(800, TimesDouble(d[4], 1200)))

\* metrics given as literals, which are doubles themselves
AsDoubles(m) == [f \in DOMAIN m |-> Double(m[f], 0)]

InitSampler ==
    /\ state = setRoadNetwork(initialState, mockRoadNetwork)
    /\ now = 0
    /\ page = "simulation"
    /\ isRunning = FALSE
    /\ currentMetrics = AsDoubles(defaultMetrics)
    /\ simulationInterval = 0
    /\ timers = {}
    /\ pendingStops = <<>>
    /\ config = defaultConfig
    /\ historicalData = <<>>
    /\ appended = <<>>
    /\ edits = 0
    /\ lastOp = "none"
    /\ ticked = FALSE
    /\ upload = initialUpload
    /\ templatesEffect = initialEffect

\* the setInterval callback of a sampler
SamplerTickDouble(t, d) ==
    /\ t \in timers
    /\ currentMetrics' = IF t.mounted
                         THEN newMetricsDouble(d) ELSE currentMetrics
    /\ state' = updateMetrics(state, newMetricsDouble(d))
    /\ ticked' = TRUE
    /\ lastOp' = "sample"
    /\ UNCHANGED <<templatesEffect, upload, now, page, isRunning, simulationInterval, timers,
                   pendingStops, config, historicalData, appended, edits>>

\* the timeout of stopSimulation resolves
StopSimulationDoneDouble ==
    /\ pendingStops # <<>>
    /\ pendingStops' = Tail(pendingStops)
    /\ state' = updateMetrics(stopSimulationEnd(state), AsDoubles(stopMetrics))
    /\ IF Head(pendingStops)
       THEN isRunning' = FALSE /\ currentMetrics' = AsDoubles(stopMetrics)
       ELSE UNCHANGED <<isRunning, currentMetrics>>
    /\ lastOp' = "stopped"
    /\ UNCHANGED <<templatesEffect, upload, now, page, simulationInterval, timers,
                   config, historicalData, appended, edits, ticked>>

\* a click on the Reset button
HandleResetDouble ==
    /\ SimulationShown
    /\ timers' = clearSimulationInterval(timers, simulationInterval)
    /\ simulationInterval' = 0
    /\ isRunning' = FALSE
    /\ currentMetrics' = AsDoubles(resetMetrics)
    /\ state' = updateMetrics(state, AsDoubles(resetMetrics))
    /\ lastOp' = "reset"
    /\ UNCHANGED <<templatesEffect, upload, now, page, pendingStops, config,
                   historicalData, appended, edits, ticked>>

NextSampler ==
    \/ HandleStartSimulation
    \/ \E t \in timers : \E d \in RandomDoubleDraws : SamplerTickDouble(t, d)
    \/ HandleStopSimulation
    \/ StopSimulationDoneDouble
    \/ HandleResetDouble

SpecSampler == InitSampler /\ [][NextSampler]_vars

-----------------------------------------------------------------------------
(* The effect that loads the templates.  The provider makes a new           *)
(* loadTemplates function on every render (it is not memoized), and         *)
(* Dashboard and the form run `useEffect(() => loadTemplates(),             *)
(* [loadTemplates])`: after a render in which loadTemplates is not the      *)
(* function the effect last ran with.  LoadTemplates above is this effect   *)
(* by its result on the store only.                                         *)

\* renders of the provider that are followed
MaxRenders == 12

\* a page that calls loadTemplates in an effect is mounted
TemplatesConsumerMounted == page = "dashboard" \/ SimulationShown

\* the effect is due: loadTemplates changed since the effect last ran
EffectPending ==
    /\ TemplatesConsumerMounted
    /\ templatesEffect.ran # templatesEffect.fn

\* the effect ran with the current loadTemplates, whose dispatch gave the
\* reducer's new state object and so a new render of the provider
RenderProvider(e) == [fn |-> e.fn + 1, ran |-> e.fn]

\* the effect of Dashboard and of the form runs
LoadTemplatesEffect ==
    /\ EffectPending
    /\ templatesEffect.fn < MaxRenders
    /\ state' = loadTemplates(state)
    /\ templatesEffect' = RenderProvider(templatesEffect)
    /\ UNCHANGED <<upload, now, page, isRunning, currentMetrics,
                   simulationInterval, timers, pendingStops, config,
                   historicalData, appended, edits, lastOp, ticked>>

\* a Link or navigate() to "/" or "/upload": the page mounts, its effects
\* have not run yet
TemplatesNavigate(to) ==
    /\ to \in {"dashboard", "upload"}
    /\ page # to
    /\ page' = to
    /\ Unmounted
    /\ templatesEffect' = [templatesEffect EXCEPT !.ran = 0]
    /\ UNCHANGED <<upload, state, now, simulationInterval, edits, lastOp, ticked>>

\* a Link of the Dashboard to "/simulation"
TemplatesNavigateSimulation ==
    /\ page = "dashboard"
    /\ IF state.roadNetwork = Null
       THEN /\ page' = "upload"
            /\ Unmounted
       ELSE /\ page' = "simulation"
            /\ isRunning' = FALSE
            /\ currentMetrics' = defaultMetrics
            /\ config' = IF state.simulationConfig # Null
                         THEN state.simulationConfig ELSE defaultConfig
            /\ historicalData' = <<>>
            /\ appended' = <<>>
            /\ UNCHANGED <<timers, pendingStops>>
    /\ templatesEffect' = [templatesEffect EXCEPT !.ran = 0]
    /\ UNCHANGED <<upload, state, now, simulationInterval, edits, lastOp, ticked>>

\* handleUpload of the Upload page: SET_ROAD_NETWORK renders the provider
\* again, and the page redirects to "/"
TemplatesHandleUpload ==
    /\ page = "upload"
    /\ templatesEffect.fn < MaxRenders
    /\ state' = setRoadNetwork(state, mockRoadNetwork)
    /\ page' = "dashboard"
    /\ templatesEffect' = [fn |-> templatesEffect.fn + 1, ran |-> 0]
    /\ UNCHANGED <<upload, now, isRunning, currentMetrics, simulationInterval,
                   timers, pendingStops, config, historicalData,
                   appended, edits, lastOp, ticked>>

NextTemplates ==
    \/ ClockTick
    \/ \E to \in {"dashboard", "upload"} : TemplatesNavigate(to)
    \/ TemplatesNavigateSimulation
    \/ TemplatesHandleUpload
    \/ LoadTemplatesEffect

SpecTemplates == Init /\ [][NextTemplates]_vars

-----------------------------------------------------------------------------
(* The store alone: the value of the context (state, dispatch and the       *)
(* operations) used by any consumer, in any order, with no Simulation page  *)
(* mounted                                                                  *)

\* configurations given to the operations: one that validates, one that
\* does not
StoreConfigs == {defaultConfig, handleInputChange(defaultConfig, "car_percentage", 50)}

\* metrics given to updateMetrics
StoreMetrics == {newMetrics(d) : d \in RandomDraws} \cup {stopMetrics}

\* actions a consumer dispatches itself, besides those of the operations
StoreActions == {Action("CLEAR_SIMULATION", Null),
                 Action("SET_ERROR", ErrorMessage("Failed to start simulation"))}

StoreStartSimulation(c) ==
    /\ state' = startSimulation(state, c, now)
    /\ lastOp' = "start"
    /\ UNCHANGED <<templatesEffect, upload, now, page, isRunning, currentMetrics, simulationInterval,
                   timers, pendingStops, config, historicalData, appended,
                   edits, ticked>>

\* stopSimulation() up to its await; lastOp tells whether there was a session
StoreStopSimulation ==
    /\ Len(pendingStops) < MaxPending
    /\ state' = stopSimulationBegin(state)
    /\ pendingStops' = Append(pendingStops, FALSE)
    /\ lastOp' = IF state.currentSimulation # Null THEN "stop" ELSE "stop_idle"
    /\ UNCHANGED <<templatesEffect, upload, now, page, isRunning, currentMetrics, simulationInterval,
                   timers, config, historicalData, appended, edits, ticked>>

\* the timeout of that stopSimulation() resolves
StoreStopSimulationDone ==
    /\ pendingStops # <<>>
    /\ pendingStops' = Tail(pendingStops)
    /\ state' = stopSimulationEnd(state)
    /\ UNCHANGED <<templatesEffect, upload, now, page, isRunning, currentMetrics, simulationInterval,
                   timers, config, historicalData, appended, edits, lastOp,
                   ticked>>

StoreUpdateMetrics(m) ==
    /\ state' = updateMetrics(state, m)
    /\ state' # state
    /\ UNCHANGED <<templatesEffect, upload, now, page, isRunning, currentMetrics, simulationInterval,
                   timers, pendingStops, config, historicalData, appended,
                   edits, lastOp, ticked>>

StoreSetRoadNetwork ==
    /\ state' = setRoadNetwork(state, mockRoadNetwork)
    /\ state' # state
    /\ UNCHANGED <<templatesEffect, upload, now, page, isRunning, currentMetrics, simulationInterval,
                   timers, pendingStops, config, historicalData, appended,
                   edits, lastOp, ticked>>

StoreSetSimulationConfig(c) ==
    /\ state' = setSimulationConfig(state, c)
    /\ state' # state
    /\ UNCHANGED <<templatesEffect, upload, now, page, isRunning, currentMetrics, simulationInterval,
                   timers, pendingStops, config, historicalData, appended,
                   edits, lastOp, ticked>>

StoreDispatch(a) ==
    /\ state' = Dispatch(state, << a >>)
    /\ state' # state
    /\ UNCHANGED <<templatesEffect, upload, now, page, isRunning, currentMetrics, simulationInterval,
                   timers, pendingStops, config, historicalData, appended,
                   edits, lastOp, ticked>>

NextStore ==
    \/ ClockTick
    \/ LoadTemplates
    \/ \E c \in StoreConfigs : StoreStartSimulation(c)
    \/ StoreStopSimulation
    \/ StoreStopSimulationDone
    \/ \E m \in StoreMetrics : StoreUpdateMetrics(m)
    \/ StoreSetRoadNetwork
    \/ \E c \in StoreConfigs : StoreSetSimulationConfig(c)
    \/ \E a \in StoreActions : StoreDispatch(a)

SpecStore == Init /\ [][NextStore]_vars

-----------------------------------------------------------------------------
(* The Upload page: selecting, removing and uploading a file *)

\* a file is dropped on the upload area or picked in the file input
HandleFileSelect(file) ==
    /\ page = "upload"
    /\ upload' = handleFileSelect(upload, file)
    /\ UNCHANGED <<templatesEffect, state, now, page, isRunning, currentMetrics,
                   simulationInterval, timers, pendingStops, config,
                   historicalData, appended, edits, lastOp, ticked>>

\* a click on Remove, shown with the selected file
RemoveFile ==
    /\ page = "upload"
    /\ upload.selectedFile # Null
    /\ upload' = removeFile(upload)
    /\ UNCHANGED <<templatesEffect, state, now, page, isRunning, currentMetrics,
                   simulationInterval, timers, pendingStops, config,
                   historicalData, appended, edits, lastOp, ticked>>

\* a click on Upload & Process, shown with the selected file and disabled
\* while uploading; one handleUpload is in its delay at a time
HandleUploadClick ==
    /\ page = "upload"
    /\ upload.selectedFile # Null
    /\ ~upload.uploading
    /\ upload.pending = "none"
    /\ upload' = handleUploadBegin(upload)
    /\ UNCHANGED <<templatesEffect, state, now, page, isRunning, currentMetrics,
                   simulationInterval, timers, pendingStops, config,
                   historicalData, appended, edits, lastOp, ticked>>

\* the 2000 ms timeout of handleUpload resolves
UploadProcessed ==
    /\ upload.pending # "none"
    /\ state' = setRoadNetwork(state, mockRoadNetwork)
    /\ upload' = handleUploadEnd(upload)
    /\ UNCHANGED <<templatesEffect, now, page, isRunning, currentMetrics,
                   simulationInterval, timers, pendingStops, config,
                   historicalData, appended, edits, lastOp, ticked>>

\* the 1500 ms timeout set after a successful upload: navigate("/")
UploadRedirect ==
    /\ page = "upload"
    /\ upload.uploadSuccess
    /\ page' = "dashboard"
    /\ upload' = uploadUnmounted(upload)
    /\ UNCHANGED <<templatesEffect, state, now, isRunning, currentMetrics,
                   simulationInterval, timers, pendingStops, config,
                   historicalData, appended, edits, lastOp, ticked>>

\* the Link of the Navbar to "/", taken on the Upload page
LeaveUpload ==
    /\ page = "upload"
    /\ page' = "dashboard"
    /\ upload' = uploadUnmounted(upload)
    /\ UNCHANGED <<templatesEffect, state, now, isRunning, currentMetrics,
                   simulationInterval, timers, pendingStops, config,
                   historicalData, appended, edits, lastOp, ticked>>

NextUpload ==
    \/ Navigate("upload")
    \/ \E file \in Files : HandleFileSelect(file)
    \/ RemoveFile
    \/ HandleUploadClick
    \/ UploadProcessed
    \/ UploadRedirect
    \/ LeaveUpload

SpecUpload == Init /\ [][NextUpload]_vars

-----------------------------------------------------------------------------
(* Properties *)

\* the validation predicate as the specification states it
ValidationPredicate(c) ==
    /\ 100 <= c.vehicles_per_hour /\ c.vehicles_per_hour <= 5000
    /\ c.car_percentage + c.truck_percentage = 100
    /\ 10 <= c.peak_hour_factor /\ c.peak_hour_factor <= 20
    /\ c.green_time > 0 /\ c.yellow_time > 0 /\ c.red_time >= 0

HasSession == state.currentSimulation # Null

\* a step in which the controller started: the page went to running
ControllerStart == ~isRunning /\ isRunning'

\* a step that is the callback of some active sampler
SamplerStep == \E t \in timers : \E d \in RandomDraws : SamplerTick(t, d)

\* a step in which a pending stop completed
StopDoneStep == Len(pendingStops') < Len(pendingStops)

\* a step in which START_SIMULATION was dispatched: a fresh running session
\* record, without metrics, replaced what the store held
StartDispatched ==
    /\ state'.currentSimulation # state.currentSimulation
    /\ state'.currentSimulation # Null
    /\ state'.currentSimulation.status = "running"
    /\ state'.currentSimulation.metrics = Null

\* a step in which a consumer other than the controller called startSimulation
ApiStartStep == \E c \in ConfigSamples : ApiStartSimulation(c)

\* C1: while the configuration of the form violates the validation
\* predicate, no step of the controller starts: the page does not go to
\* running, START_SIMULATION is not dispatched, and no sampler interval is
\* registered.
C1_InvalidConfigNeverStarts ==
    [][(~ValidationPredicate(config) /\ ~ApiStartStep) =>
          /\ ~ControllerStart
          /\ ~StartDispatched
          /\ timers' \subseteq timers
          /\ simulationInterval' \in {simulationInterval, 0}]_vars

\* the Start button is shown and disabled: the form holds a configuration,
\* copied from the store, that violates the predicate, and there is no
\* session record
C1_Witness ==
    /\ SimulationShown
    /\ ~isRunning
    /\ state.simulationConfig = config
    /\ ~ValidationPredicate(config)
    /\ ~HasSession
    /\ timers = {}

\* C2 as stated: startSimulation of the store, invoked with a configuration
\* whose car and truck percentages do not add up to 100, does not leave a
\* session whose status is running.
C2_StoreStartRefusesBadSplit ==
    [][\A c \in ConfigSamples :
          (/\ c.car_percentage + c.truck_percentage # 100
           /\ state' = startSimulation(state, c, now))
          => ~(state'.currentSimulation # Null
               /\ state'.currentSimulation.status = "running")]_vars

\* C2 as amended: the start action of the controller, with a configuration
\* in the form whose car and truck percentages do not add up to 100, leaves
\* no session whose status is running (it is refused).
C2_ControllerStartRefusesBadSplit ==
    [][(/\ config.car_percentage + config.truck_percentage # 100
        /\ ControllerStart)
       => ~(state'.currentSimulation # Null
            /\ state'.currentSimulation.status = "running")]_vars

\* the form holds a split that does not add up to 100, the Start button is
\* shown, and no session was produced
C2_Witness ==
    /\ SimulationShown
    /\ ~isRunning
    /\ config.car_percentage + config.truck_percentage # 100
    /\ ~HasSession

\* C3: the history holds exactly the last min(n, 20) of the n data points
\* appended, in the order they were appended; its length never exceeds 20.
C3_HistoryIsLastTwenty ==
    LET n == Len(appended)
        k == IF n <= 20 THEN n ELSE 20
    IN /\ Len(historicalData) = k
       /\ \A i \in 1..k : historicalData[i] = appended[n - k + i]

\* more than 20 points were appended, the metrics changed in between, and
\* the oldest point was evicted
C3_Witness ==
    /\ Len(appended) > 20
    /\ Len(historicalData) = 20
    /\ appended[1] # appended[Len(appended)]
    /\ historicalData[1] # appended[1]

\* C4: when a stop completes, the session is completed and its metrics are
\* all zero (as are the metrics of the page, when the instance that issued
\* the stop is still mounted, which also leaves running).
C4_StopCompletesAndZeroes ==
    [][StopDoneStep =>
          /\ state'.currentSimulation # Null
          /\ state'.currentSimulation.status = "completed"
          /\ state'.currentSimulation.metrics = Metrics(0, 0, 0, 0)
          /\ Head(pendingStops) =>
                 (~isRunning' /\ currentMetrics' = Metrics(0, 0, 0, 0))]_vars

\* a start, then a stop with no sample in between, and the stop completed
C4_Witness ==
    /\ lastOp = "stop"
    /\ ~ticked
    /\ pendingStops = <<>>
    /\ ~isRunning
    /\ HasSession
    /\ state.currentSimulation.status = "completed"
    /\ state.currentSimulation.metrics = Metrics(0, 0, 0, 0)

\* C5 as stated: once stop or reset was invoked, no sampler callback runs
\* until the next start.
C5_NoSampleAfterStopOrReset ==
    [][(lastOp \in {"stop", "reset"}) => (~SamplerStep)]_vars

\* C6 as stated: at most one start or stop is in flight (a start never is:
\* startSimulation does not wait).
C6_AtMostOnePending == Len(pendingStops) <= 1

\* C7 as stated: at most one sampler interval is active.
C7_AtMostOneSampler == Cardinality(timers) <= 1

\* C8 as stated: a reset invoked while the session is running leaves a
\* session that is neither running nor completed.
C8_ResetLeavesSessionIdle ==
    [][(/\ HandleReset
        /\ HasSession
        /\ state.currentSimulation.status = "running")
       => /\ state'.currentSimulation # Null =>
                state'.currentSimulation.status \notin {"running", "completed"}]_vars

\* C9: a reset leaves the metrics of the page, and of the session when there
\* is one, at the default {50, 0, 0, 0}.
C9_ResetRestoresDefaultMetrics ==
    [][HandleReset =>
          /\ currentMetrics' = Metrics(50, 0, 0, 0)
          /\ state'.currentSimulation # Null =>
                 state'.currentSimulation.metrics = Metrics(50, 0, 0, 0)]_vars

\* a session received a sample, and a reset then restored the default
C9_Witness ==
    /\ lastOp = "reset"
    /\ ticked
    /\ HasSession
    /\ state.currentSimulation.metrics = Metrics(50, 0, 0, 0)
    /\ currentMetrics = Metrics(50, 0, 0, 0)

\* C10 as stated: a reset leaves the history empty.
C10_ResetEmptiesHistory ==
    [][HandleReset => historicalData' = <<>>]_vars

\* the state a completed stop leaves: session completed with zero metrics,
\* the page not running, showing zero metrics, with no interval handle
StoppedState ==
    /\ HasSession
    /\ state.currentSimulation.status = "completed"
    /\ state.currentSimulation.metrics = stopMetrics
    /\ ~isRunning
    /\ currentMetrics = stopMetrics
    /\ simulationInterval = 0

\* C11: a second stop that completes right after a first one (in the state
\* the first left) changes nothing: the session record (id, status, metrics),
\* the interval handle, the active intervals and the running flag and
\* metrics of the page are what they were after the first.
C11_SecondStopChangesNothing ==
    [][(StopDoneStep /\ StoppedState) =>
          /\ state'.currentSimulation = state.currentSimulation
          /\ state'.error = state.error
          /\ simulationInterval' = simulationInterval
          /\ timers' = timers
          /\ isRunning' = isRunning
          /\ currentMetrics' = currentMetrics]_vars

\* Stop was clicked twice; the first stop completed and the second is still
\* to complete, from the page that is mounted
C11_Witness ==
    /\ StoppedState
    /\ lastOp = "stop"
    /\ pendingStops = <<TRUE>>

\* the data points of the samples a sampler can emit
EmittedPoints ==
    {[average_speed |-> newMetrics(d).average_speed_kmh,
      queue_length |-> newMetrics(d).total_queue_length,
      throughput |-> newMetrics(d).throughput_vehicles_per_hour,
      wait_time |-> newMetrics(d).average_wait_time_seconds] : d \in RandomDraws}

\* C12 as stated: while a session is running, the history holds the samples
\* the ticks emitted, one entry per tick: it is empty before the first tick,
\* not empty after it, and every entry is an emitted sample.
C12_HistoryHoldsEmittedSamples ==
    (SimulationShown /\ isRunning) =>
        /\ ticked <=> historicalData # <<>>
        /\ \A i \in 1..Len(historicalData) :
               [f \in {"average_speed", "queue_length", "throughput", "wait_time"}
                   |-> historicalData[i][f]] \in EmittedPoints

\* C13: a tick of a sampler, while a session record exists, leaves the
\* metrics of the session equal to exactly the sample of that tick, whatever
\* they were before, and leaves the rest of the record as it was; without a
\* session record the tick leaves the store as it was.
C13_TickOverwritesLatestMetrics ==
    [][\A t \in timers : \A d \in RandomDraws :
          SamplerTick(t, d) =>
             IF HasSession
             THEN state' = [state EXCEPT !.currentSimulation.metrics = newMetrics(d)]
             ELSE state' = state]_vars

\* a running session whose metrics are the sample of a tick
C13_Witness ==
    /\ HasSession
    /\ ticked
    /\ state.currentSimulation.status = "running"
    /\ \E d \in RandomDraws : state.currentSimulation.metrics = newMetrics(d)

\* the store holds no session record, or one that is not running
NotRunning == ~HasSession \/ state.currentSimulation.status # "running"

\* the store a start with configuration c leaves: a new record with the
\* identifier generated at the call, status running and no metrics; c stored
\* as the configuration; no error, not loading; the rest as it was
StartedWith(c) ==
    /\ state'.currentSimulation =
           [simulation_id |-> SimulationId(now),
            status |-> "running",
            message |-> "Simulation started successfully",
            metrics |-> Null]
    /\ state'.simulationConfig = c
    /\ state'.error = Null
    /\ state'.isLoading = FALSE
    /\ state'.roadNetwork = state.roadNetwork
    /\ state'.templates = state.templates

\* C14: startSimulation invoked while the store holds no session or one that
\* is not running, by the controller with the configuration of the form or
\* by any consumer with any configuration, leaves a new session record with
\* the identifier generated at the call, status running and no metrics, and
\* the given configuration stored.
C14_StartCreatesRunningSession ==
    [][NotRunning =>
          /\ ControllerStart => StartedWith(config)
          /\ \A c \in ConfigSamples : ApiStartSimulation(c) => StartedWith(c)]_vars

\* a session that ran and was stopped had metrics; a start with another
\* configuration then left a running record without metrics
C14_Witness ==
    /\ HasSession
    /\ state.currentSimulation.status = "running"
    /\ state.currentSimulation.metrics = Null
    /\ state.simulationConfig # Null
    /\ state.simulationConfig # defaultConfig
    /\ lastOp = "stop"
    /\ pendingStops = <<>>

\* C15 as stated: the identifier a start gives the new session differs from
\* the identifier of the session started before it.
C15_NewSessionHasNewId ==
    [][(ControllerStart /\ HasSession) =>
          state'.currentSimulation.simulation_id
              # state.currentSimulation.simulation_id]_vars

\* a step of stopSimulation(), to its await or after it
StoreStopStep == StoreStopSimulation \/ StoreStopSimulationDone

\* C16: stopSimulation() invoked while the store holds no session record
\* sets no error and, when it completes with still no record, leaves the
\* store without one; road network, configuration and templates stay as
\* they were.
C16_StopWithoutSessionIsNoOp ==
    [][(StoreStopStep /\ ~HasSession) =>
          /\ state'.currentSimulation = Null
          /\ state'.error = state.error
          /\ state'.roadNetwork = state.roadNetwork
          /\ state'.simulationConfig = state.simulationConfig
          /\ state'.templates = state.templates]_vars

\* the last operation invoked was a stop issued without a session; it
\* completed, and the store holds a network and a configuration but no session and no
\* error
C16_Witness ==
    /\ lastOp = "stop_idle"
    /\ pendingStops = <<>>
    /\ ~HasSession
    /\ ~state.isLoading
    /\ state.error = Null
    /\ state.roadNetwork # Null
    /\ state.simulationConfig # Null

\* a step that dispatches CLEAR_SIMULATION
ClearStep == StoreDispatch(Action("CLEAR_SIMULATION", Null))

\* C17: a dispatch of CLEAR_SIMULATION is one step that leaves the store
\* without session record, configuration and road network, all three at
\* once, and with its templates, isLoading and error as they were.
C17_ClearDiscardsAllAtOnce ==
    [][ClearStep =>
          /\ state'.currentSimulation = Null
          /\ state'.roadNetwork = Null
          /\ state'.simulationConfig = Null
          /\ state'.templates = state.templates
          /\ state'.isLoading = state.isLoading
          /\ state'.error = state.error]_vars

\* a session was started and nothing but CLEAR_SIMULATION removes one: the
\* store was cleared, and kept its templates and its error
C17_Witness ==
    /\ lastOp = "start"
    /\ ~HasSession
    /\ state.roadNetwork = Null
    /\ state.simulationConfig = Null
    /\ state.templates # <<>>
    /\ state.error # Null

\* a file of an image type, of at most 10 MB
AcceptedFile(f) == f.type[1] = "image" /\ f.size <= 10 * 1024 * 1024

\* C18: selecting a file that is no image or is larger than 10 MB sets an
\* error, leaves the selected file what it was and stores nothing; the
\* selected file and the file an upload ran for are never such a file; a
\* road network is stored only after an upload ran for a file; and
\* handleUpload without a selected file changes nothing.
C18_RejectedFileIsNeverUploaded ==
    [][
        /\ \A f \in Files :
             (HandleFileSelect(f) /\ ~AcceptedFile(f)) =>
                 (/\ upload'.error # Null
                  /\ upload'.selectedFile = upload.selectedFile
                  /\ upload'.sent = upload.sent
                  /\ upload'.pending = upload.pending
                  /\ state' = state)
        /\ (upload'.selectedFile # Null => AcceptedFile(upload'.selectedFile))
        /\ (upload'.sent # Null => AcceptedFile(upload'.sent))
        /\ (state'.roadNetwork # Null => upload'.sent # Null)
        /\ (upload'.selectedFile = Null =>
                 handleUploadBegin(upload') = upload')
      ]_vars

\* on the Upload page a file was refused: an error is shown, no file is
\* selected, no upload ran and no road network is stored
C18_Witness ==
    /\ page = "upload"
    /\ upload.error # Null
    /\ upload.selectedFile = Null
    /\ upload.sent = Null
    /\ upload.pending = "none"
    /\ state.roadNetwork = Null

\* a stop was issued and its delay has not ended
StopIssued == lastOp = "stop" /\ pendingStops # <<>>

\* C19 as stated: once a stop is issued on a running session, a state
\* follows in which the session is completed and the page does not report
\* running.
C19_StopLeadsToCompleted ==
    StopIssued ~>
        (/\ HasSession
         /\ state.currentSimulation.status = "completed"
         /\ ~isRunning)

\* the status of the session record of a store, "none" without a record
StatusOf(s) ==
    IF s.currentSimulation = Null THEN "none" ELSE s.currentSimulation.status

\* C20: the status of a session record is running or completed, never
\* idle, paused or error; a record gets a status other than the one before
\* only in a step of startSimulation, which gives running, or in the
\* completion of stopSimulation, which gives completed.
C20_StatusRunningOrCompleted ==
    [][
        /\ StatusOf(state') \in {"none", "running", "completed"}
        /\ (StatusOf(state') \notin {"none", StatusOf(state)}) =>
               \/ /\ StatusOf(state') = "running"
                  /\ \E c \in StoreConfigs : StoreStartSimulation(c)
               \/ /\ StatusOf(state') = "completed"
                  /\ StoreStopSimulationDone
      ]_vars

\* a session was started, received metrics and was stopped, and an error
\* was set in the store: its status is completed
C20_Witness ==
    /\ HasSession
    /\ state.currentSimulation.status = "completed"
    /\ state.currentSimulation.metrics # Null
    /\ state.error # Null
    /\ pendingStops = <<>>

\* C21 as stated: a start of the controller is applied to a store that holds
\* no session record or one that is not running.
C21_StartOnlyWhenNotRunning ==
    [][ControllerStart => NotRunning]_vars

\* the interval registered by the start that created the session record the
\* store holds: the one window.simulationInterval refers to (every later
\* start replaces both the record and the handle)
SamplerOfSession(t) == t.id = simulationInterval

\* C22 as stated: a sample is applied to the store in the step it is emitted
\* in, and only by the sampler of the session whose record the store holds.
C22_SampleAppliedToOwnSession ==
    [][\A t \in timers : \A d \in RandomDraws :
          (SamplerTick(t, d) /\ HasSession) => SamplerOfSession(t)]_vars

\* C23 as stated: a start of the controller leaves the history empty.
C23_StartEmptiesHistory ==
    [][ControllerStart => historicalData' = <<>>]_vars

\* C24 as stated: the timestamps of the history are in non-decreasing order.
C24_HistoryTimestampsNonDecreasing ==
    \A i \in 1..(Len(historicalData) - 1) :
        historicalData[i].time <= historicalData[i + 1].time

\* C25 as stated: isLoading of the store is true exactly while a start or a
\* stop is in flight (a start never is: startSimulation does not wait).
C25_LoadingIffInFlight ==
    state.isLoading <=> (pendingStops # <<>>)

\* C26: no statement of the try blocks of startSimulation, stopSimulation
\* and the page's handlers can throw, so a failed attempt is not a case the
\* model has; the claim has no formula.

\* C27: updateMetrics changes the store only when a session exists, and then
\* only the session's latest metrics: id, status, message, road network,
\* configuration, templates, isLoading and error stay what they were.
C27_UpdateMetricsChangesOnlyMetrics ==
    [][\A m \in StoreMetrics :
          StoreUpdateMetrics(m) =>
              /\ HasSession
              /\ state'.currentSimulation # Null
              /\ state'.currentSimulation.metrics = m
              /\ state'.currentSimulation.simulation_id =
                     state.currentSimulation.simulation_id
              /\ state'.currentSimulation.status = state.currentSimulation.status
              /\ state'.currentSimulation.message = state.currentSimulation.message
              /\ state'.roadNetwork = state.roadNetwork
              /\ state'.simulationConfig = state.simulationConfig
              /\ state'.templates = state.templates
              /\ state'.isLoading = state.isLoading
              /\ state'.error = state.error]_vars

\* metrics were written to a completed session while the store held an error,
\* a road network and a loading flag
C27_Witness ==
    /\ HasSession
    /\ state.currentSimulation.metrics # Null
    /\ state.currentSimulation.status = "completed"
    /\ state.error # Null
    /\ state.roadNetwork # Null
    /\ state.isLoading

\* C28: the configuration the store holds changes only in a step that starts
\* a session: between two starts no action of the controller (template
\* choice, input edit, stop, its completion, reset) replaces it.
C28_StoredConfigChangesOnlyAtStart ==
    [][(state'.simulationConfig # state.simulationConfig) => ControllerStart]_vars

\* a session exists and the form shows a configuration other than the one
\* stored for it
C28_Witness ==
    /\ HasSession
    /\ state.simulationConfig # Null
    /\ config # state.simulationConfig

\* C29 as stated: Reset puts the configuration back to its default values,
\* whatever was edited or used before.
C29_ResetRestoresDefaultConfig ==
    [][HandleReset => config' = defaultConfig]_vars

\* C30 as stated: Reset with the controller idle (isRunning false, also after
\* a completed session) changes neither the session record and its latest
\* metrics, nor the displayed metrics, the configuration, the history or the
\* sampler handle.
C30_IdleResetIsNoOp ==
    [][(HandleReset /\ ~isRunning)
          => UNCHANGED <<state, currentMetrics, config, historicalData,
                         simulationInterval>>]_vars

\* C30 amended: Reset before any session was started changes nothing of the
\* store, the displayed metrics, the configuration, the history, the sampler
\* handle, the timers or the running flag.
C30_ResetBeforeAnySessionIsNoOp ==
    [][(HandleReset /\ ~HasSession)
          => UNCHANGED <<state, currentMetrics, config, historicalData,
                         simulationInterval, timers, isRunning>>]_vars

\* Reset was clicked on the Simulation page before any session was started
C30_Witness ==
    /\ lastOp = "reset"
    /\ ~HasSession
    /\ page = "simulation"
    /\ state.roadNetwork # Null

\* the vehicle split of a configuration: two percentages that add up to 100
SplitHolds(c) ==
    /\ c.car_percentage \in 0..100
    /\ c.truck_percentage \in 0..100
    /\ c.car_percentage + c.truck_percentage = 100

\* C31: the configuration being edited in the form, and the configuration
\* the store holds once one was saved, always have car and truck percentages
\* in 0..100 that add up to 100.
C31_SplitAlwaysHolds ==
    /\ SplitHolds(config)
    /\ (state.simulationConfig # Null => SplitHolds(state.simulationConfig))

\* a session was started with the car slider at 0 (trucks 100), and a
\* template was chosen in the form afterwards
C31_Witness ==
    /\ state.simulationConfig # Null
    /\ state.simulationConfig.truck_percentage = 100
    /\ config.car_percentage = 85

\* a step that cancels the sampler: the first lines of handleStopSimulation
\* and of handleReset
CancelStep == HandleStopSimulation \/ HandleReset

\* C32 as stated: cancelling with no handle stored leaves the timers as they
\* are, and any cancelling (a first or a repeated one) leaves the handle null
\* and no sampler timer active.
C32_CancelIsIdempotent ==
    [][CancelStep =>
          /\ (simulationInterval = 0 => timers' = timers)
          /\ simulationInterval' = 0
          /\ timers' = {}]_vars

\* x, held as whole - below * 2^-53, lies in [lo, hi)
InHalfOpen(x, lo, hi) ==
    /\ x.whole > lo \/ (x.whole = lo /\ x.below = 0)
    /\ x.whole < hi \/ (x.whole = hi /\ x.below > 0)

\* x lies in [lo, hi]
InClosed(x, lo, hi) ==
    /\ x.whole > lo \/ (x.whole = lo /\ x.below = 0)
    /\ x.whole < hi \/ (x.whole = hi /\ x.below >= 0)

\* x >= 0
NonNegative(x) == x.whole > 0 \/ (x.whole = 0 /\ x.below = 0)

\* every value held as latest metrics, displayed or in the session record
HeldMetrics ==
    {currentMetrics} \cup
    (IF HasSession /\ state.currentSimulation.metrics # Null
     THEN {state.currentSimulation.metrics} ELSE {})

\* the latest value is a sample
SampleHeld == lastOp = "sample" /\ HasSession

\* C33 as stated: every sample has speed in [40,70), queue in [0,20), wait in
\* [0,60) and throughput in [800,2000), and every value held as latest
\* metrics has four non-negative fields.
C33_SamplesInHalfOpenRanges ==
    /\ SampleHeld =>
         LET m == state.currentSimulation.metrics
         IN /\ InHalfOpen(m.average_speed_kmh, 40, 70)
            /\ InHalfOpen(m.total_queue_length, 0, 20)
            /\ InHalfOpen(m.average_wait_time_seconds, 0, 60)
            /\ InHalfOpen(m.throughput_vehicles_per_hour, 800, 2000)
    /\ \A m \in HeldMetrics : \A f \in DOMAIN m : NonNegative(m[f])

\* C33 amended: every sample has speed in [40,70] (70 included), queue in
\* [0,20), wait in [0,60) and throughput in [800,2000), and every value held
\* as latest metrics has four non-negative fields.
C33_SamplesInRanges ==
    /\ SampleHeld =>
         LET m == state.currentSimulation.metrics
         IN /\ InClosed(m.average_speed_kmh, 40, 70)
            /\ InHalfOpen(m.total_queue_length, 0, 20)
            /\ InHalfOpen(m.average_wait_time_seconds, 0, 60)
            /\ InHalfOpen(m.throughput_vehicles_per_hour, 800, 2000)
    /\ \A m \in HeldMetrics : \A f \in DOMAIN m : NonNegative(m[f])

\* a sample drawn with Math.random() at its largest in all four places:
\* speed exactly 70, the other three just below their upper ends
C33_Witness ==
    /\ SampleHeld
    /\ currentMetrics = state.currentSimulation.metrics
    /\ currentMetrics.average_speed_kmh = Double(70, 0)
    /\ currentMetrics.total_queue_length.whole = 20
    /\ currentMetrics.average_wait_time_seconds.whole = 60
    /\ currentMetrics.throughput_vehicles_per_hour.whole = 2000

\* C34 as stated: whenever the Simulation page is shown and reports not
\* running, no sampler timer is active.
C34_NotRunningMeansNoSampler ==
    (SimulationShown /\ ~isRunning) => timers = {}

\* C35 as stated: a stop that completes after a later start (the last of
\* start, stop and reset was a start, so every pending stop was issued for an
\* earlier session) leaves the new session running, with the metrics it had.
C35_OldStopSparesNewSession ==
    [][(StopDoneStep /\ lastOp = "start" /\ HasSession)
          => /\ state'.currentSimulation.status = "running"
             /\ state'.currentSimulation.metrics =
                    state.currentSimulation.metrics]_vars

\* C36 as stated: loading the templates comes to an end: once the effect has
\* run and SET_TEMPLATES was dispatched, the effect is not due again (no
\* render -> effect -> dispatch -> render cycle).
C36_TemplateLoadingSettles ==
    [][LoadTemplatesEffect => ~EffectPending']_vars

\* C37: a session record exists only while a road network is loaded, and a
\* start by the controller happens only with a road network loaded.
C37_SessionNeedsRoadNetwork ==
    /\ HasSession => state.roadNetwork # Null
    /\ isRunning => state.roadNetwork # Null

\* a session was started, and stopped, with the uploaded road network
C37_Witness ==
    /\ HasSession
    /\ state.currentSimulation.status = "completed"
    /\ state.roadNetwork = mockRoadNetwork

\* the configurations the three built-in templates give the form
TemplateConfigs ==
    {templateConfig(mockTemplates[i]) : i \in 1..Len(mockTemplates)}

\* C38: choosing any built-in template leaves the form with a configuration
\* that passes validateConfig, and a click on Start with a template's
\* configuration in the form stores it and makes the session running.
C38_TemplatesPassValidation ==
    [][/\ \A key \in TemplateNames :
             HandleTemplateChange(key) =>
                 (config' \in TemplateConfigs /\ validateConfig(config'))
       /\ \A c \in TemplateConfigs :
             (config = c /\ SimulationShown /\ ~isRunning) =>
                 /\ StartEnabled
                 /\ (HandleStartSimulation =>
                        /\ HasSession'
                        /\ state'.currentSimulation.status = "running"
                        /\ state'.simulationConfig = c)]_vars

\* a session runs with the Roundabout template, whose red time is 0
C38_Witness ==
    /\ HasSession
    /\ state.currentSimulation.status = "running"
    /\ isRunning
    /\ state.simulationConfig = templateConfig(mockTemplates[3])
    /\ state.simulationConfig.red_time = 0

====
